---- MODULE Spec2Model ----
(***************************************************************************)
(* Session and process-control layer of the Flutter iOS simulator MCP      *)
(* server: SessionManager (session registry), FlutterProcessManager        *)
(* (process supervisor) and LogBuffer.                                     *)
(*                                                                         *)
(* Strings whose characters matter (paths, arguments, flavors) are         *)
(* sequences of one-character strings, so that String.startsWith,          *)
(* String.endsWith, path.resolve and the regular expressions are computed  *)
(* character by character as the code computes them.                       *)
(***************************************************************************)
EXTENDS Integers, Sequences, FiniteSets, Bags, TLC

\* ------------------------------------------------------------------------
\* Bounds of the model
\* ------------------------------------------------------------------------
MaxSegs == 3        \* segments in the project path of the single client
MaxCreates == 2     \* createSession calls that get past validation
MaxCalls == 2       \* registry calls in flight at the same time
MaxArgs == 2        \* extra arguments in the options of the single client
MaxStarts == 2      \* subprocesses a supervisor spawns
MaxLines == 2       \* capacity of the log buffer (maxLines of the constructor)
MaxAppends == 3     \* lines appended to a log buffer since it was last cleared
MaxTimers == 2      \* hot-reload timers pending at the same time
MaxSent == 4        \* stdin writes and signals sent to subprocesses
MaxSignals == 2     \* termination signals delivered to the server
MaxTests == 2       \* test runs started

\* ------------------------------------------------------------------------
\* Strings
\* ------------------------------------------------------------------------
startsWith(s, p) == Len(p) <= Len(s) /\ SubSeq(s, 1, Len(p)) = p

endsWith(s, p) == Len(p) <= Len(s) /\ SubSeq(s, Len(s) - Len(p) + 1, Len(s)) = p

RECURSIVE splitAcc(_, _, _)
splitAcc(s, sep, cur) ==
    IF s = <<>> THEN <<cur>>
    ELSE IF Head(s) = sep THEN <<cur>> \o splitAcc(Tail(s), sep, <<>>)
    ELSE splitAcc(Tail(s), sep, Append(cur, Head(s)))

\* String.prototype.split(sep)
split(s, sep) == splitAcc(s, sep, <<>>)

\* ------------------------------------------------------------------------
\* Paths (node:path, POSIX)
\* ------------------------------------------------------------------------
Slash == <<"/">>
Dot == <<".">>
DotDot == <<".", ".">>

\* working directory of the server process
Cwd == <<"/", "u", "/", "p">>

isAbsolute(p) == p # <<>> /\ Head(p) = "/"

RECURSIVE normalizeSegs(_, _)
normalizeSegs(segs, acc) ==
    IF segs = <<>> THEN acc
    ELSE LET h == Head(segs) IN
         IF h = <<>> \/ h = Dot THEN normalizeSegs(Tail(segs), acc)
         ELSE IF h = DotDot
              THEN normalizeSegs(Tail(segs),
                       IF acc = <<>> THEN acc ELSE SubSeq(acc, 1, Len(acc) - 1))
              ELSE normalizeSegs(Tail(segs), Append(acc, h))

RECURSIVE joinAbs(_)
joinAbs(segs) ==
    IF segs = <<>> THEN <<>> ELSE Slash \o Head(segs) \o joinAbs(Tail(segs))

normalizeAbs(p) ==
    LET n == normalizeSegs(split(p, "/"), <<>>)
    IN  IF n = <<>> THEN Slash ELSE joinAbs(n)

\* path.resolve(base, p): the rightmost absolute argument wins, the working
\* directory is prepended when none is absolute, the result is normalized
resolve2(base, p) ==
    normalizeAbs(IF isAbsolute(p) THEN p
                 ELSE IF isAbsolute(base) THEN base \o Slash \o p
                 ELSE Cwd \o Slash \o base \o Slash \o p)

\* path.resolve(p)
resolve(p) == resolve2(<<>>, p)

\* path.join(dir, name) for an absolute dir
join(dir, name) == normalizeAbs(dir \o Slash \o name)

\* ------------------------------------------------------------------------
\* The file system the server runs on
\* ------------------------------------------------------------------------
PUBSPEC == <<"p", "u", "b", "s", "p", "e", "c", ".", "y", "a", "m", "l">>
MAIN_DART == <<"m", ".", "d", "a", "r", "t">>
NOTES_TXT == <<"n", ".", "t", "x", "t">>

FsDirs ==
    { Slash,
      <<"/", "u">>,                       \* allowed root, no manifest
      <<"/", "u", "/", "p">>,             \* a Flutter project
      <<"/", "u", "/", "p", "b">>,        \* sibling of /u/p, a Flutter project
      <<"/", "u", "/", "e">>,             \* directory without manifest
      <<"/", "e">> }                      \* a Flutter project outside /u

FsFiles ==
    { <<"/", "u", "/", "f">>,
      <<"/", "u", "/", "p">> \o Slash \o PUBSPEC,
      <<"/", "u", "/", "p">> \o Slash \o MAIN_DART,
      <<"/", "u", "/", "p">> \o Slash \o NOTES_TXT,
      <<"/", "u", "/", "p", "b">> \o Slash \o PUBSPEC,
      <<"/", "u", "/", "p", "b">> \o Slash \o MAIN_DART,
      <<"/", "e">> \o Slash \o PUBSPEC,
      <<"/", "e">> \o Slash \o MAIN_DART }

\* fs.existsSync
existsSync(p) == p \in FsDirs \/ p \in FsFiles

\* fs.statSync(p).isDirectory()
isDirectory(p) == p \in FsDirs


\* ------------------------------------------------------------------------
\* Inputs handed to the registry
\* ------------------------------------------------------------------------
SegPool == { <<"u">>, <<"p">>, <<"e">>, <<"f">>, DotDot, Dot, <<>> }

SegSeqs(n) == UNION { [1..k -> SegPool] : k \in 1..n }

RECURSIVE joinSegs(_)
joinSegs(segs) ==
    IF Len(segs) = 1 THEN Head(segs)
    ELSE Head(segs) \o Slash \o joinSegs(Tail(segs))

\* absolute and relative project paths of at most MaxSegs segments
PathPool == { lead \o joinSegs(s) : lead \in {<<>>, Slash}, s \in SegSeqs(MaxSegs) }

\* the project paths concurrent clients of the registry ask for
ProjectPaths ==
    { <<"/", "u", "/", "p">>,                          \* a project
      <<"/", "u", "/", "p", "/", ".", ".", "/", "p">>, \* the same, not normalized
      <<"/", "u", "/", ".", ".", "/", "e">>,           \* a project outside /u
      <<"/", "u", "/", "x">> }                         \* does not exist

PrefixPool == { <<"/", "u">>, <<"/", "u", "/">>, <<"/", "e">> }

\* ------------------------------------------------------------------------
\* State
\* ------------------------------------------------------------------------
VARIABLES
    allowedPathPrefix,  \* SessionManager.allowedPathPrefix
    sessionState,       \* the registry: sessions in insertion order
    nextUuid,           \* source of fresh session ids (uuidv4)
    nextUdid,           \* source of fresh simulator ids (createSimulator)
    devices,            \* simulators that exist (created and not deleted)
    calls,              \* the bag of registry calls in flight
    ret,                \* what the last step returned to its caller, if anything
    request             \* the project path of the single client, if there is one

regVars == <<allowedPathPrefix, sessionState, nextUuid, nextUdid, devices, calls, ret,
             request>>

VARIABLES
    process,            \* FlutterProcessManager.process: the handle of the subprocess
    flutterProcess,     \* FlutterProcessManager.flutterProcess: the status record
    logs,               \* LogBuffer.logs
    currentIndex,       \* LogBuffer.currentIndex
    logSubscribers,     \* FlutterProcessManager.logSubscribers
    timers,             \* hot-reload timers set and not yet fired
    spawns,             \* calls of spawnStreaming so far
    alive,              \* the subprocesses spawned that have not exited
    sent,               \* what was sent to subprocesses: stdin writes, signals
    cleanupCall,        \* the cleanup() of the supervisor in flight, if any
    history,            \* of the log buffer: lines appended, whether cleared
    out,                \* what the last supervisor step returned, if anything
    startOptions        \* the options of the single client, if there is one

supState == <<process, flutterProcess, logs, currentIndex, logSubscribers, timers, spawns,
              alive, sent, cleanupCall, history>>

supVars == <<supState, out, startOptions>>

VARIABLES
    shutdown,           \* the signal handlers of the server and their shutdown() calls
    reader,             \* a client that pages through the log with getLogs
    testRuns            \* the test runs started: the next reference, who started each

restVars == <<shutdown, reader, testRuns>>

vars == <<regVars, supVars, restVars>>

NoCall ==
    [op |-> "none", pc |-> "none", sid |-> 0, udid |-> 0, hasSup |-> FALSE,
     path |-> <<>>, todo |-> <<>>, trace |-> <<>>, fails |-> {},
     snap |-> {}, ended |-> <<>>, overlap |-> FALSE]

NoRet ==
    [op |-> "none", err |-> "none", sid |-> 0, udid |-> 0, hasSup |-> FALSE,
     path |-> <<>>, wpath |-> <<>>, trace |-> <<>>, fails |-> {},
     snap |-> {}, ended |-> <<>>, overlap |-> FALSE, reference |-> 0]

inFlight == BagToSet(calls)

\* the calls in flight with `call` replaced by `next`
replaceCall(call, next) == (calls (-) SetToBag({call})) (+) SetToBag({next})

removeCall(call) == calls (-) SetToBag({call})

\* sessionState.list() / get / delete on the insertion-ordered map
sessionIds == { sessionState[i].id : i \in 1..Len(sessionState) }

listSessions == [i \in 1..Len(sessionState) |-> sessionState[i].id]

hasSession(id) == id \in sessionIds

getSession(id) == sessionState[CHOOSE i \in 1..Len(sessionState) : sessionState[i].id = id]

deleteSession(reg, id) == SelectSeq(reg, LAMBDA s : s.id # id)

\* ------------------------------------------------------------------------
\* SessionManager
\* ------------------------------------------------------------------------

\* validateProjectPath with the prefix compared against the path as given
validateProjectPath_unresolved(prefix, worktreePath) ==
    LET resolvedPath == resolve(worktreePath)
    IN  IF ~startsWith(worktreePath, prefix) THEN "access-denied"
        ELSE IF ~existsSync(resolvedPath) THEN "not-found"
        ELSE IF ~isDirectory(resolvedPath) THEN "not-a-directory"
        ELSE IF ~existsSync(join(resolvedPath, PUBSPEC)) THEN "invalid-project"
        ELSE "ok"

\* validateProjectPath with the existence check made before the prefix check
validateProjectPath_existsFirst(prefix, worktreePath) ==
    LET resolvedPath == resolve(worktreePath)
    IN  IF ~existsSync(resolvedPath) THEN "not-found"
        ELSE IF ~startsWith(resolvedPath, prefix) THEN "access-denied"
        ELSE IF ~isDirectory(resolvedPath) THEN "not-a-directory"
        ELSE IF ~existsSync(join(resolvedPath, PUBSPEC)) THEN "invalid-project"
        ELSE "ok"

\* validateProjectPath with the prefix the manager was constructed with
validateProjectPath_defaultPrefix(prefix, worktreePath) ==
    LET resolvedPath == resolve(worktreePath)
    IN  IF ~startsWith(resolvedPath, <<"/", "u">>) THEN "access-denied"
        ELSE IF ~existsSync(resolvedPath) THEN "not-found"
        ELSE IF ~isDirectory(resolvedPath) THEN "not-a-directory"
        ELSE IF ~existsSync(join(resolvedPath, PUBSPEC)) THEN "invalid-project"
        ELSE "ok"

\* createSession: the checks made on the project path, in the code's order
validateProjectPath(prefix, worktreePath) ==
    LET resolvedPath == resolve(worktreePath)
    IN  IF ~startsWith(resolvedPath, prefix) THEN "access-denied"
        ELSE IF ~existsSync(resolvedPath) THEN "not-found"
        ELSE IF ~isDirectory(resolvedPath) THEN "not-a-directory"
        ELSE IF ~existsSync(join(resolvedPath, PUBSPEC)) THEN "invalid-project"
        ELSE "ok"

\* the Session object createSession records
\* session.testManager when no FlutterTestManager was made for the session
NoTestManager == [made |-> FALSE, references |-> {}]

newSession(sessionId, worktreePath, simulatorUdid) ==
    [id |-> sessionId, worktreePath |-> worktreePath,
     simulatorUdid |-> simulatorUdid, hasSup |-> FALSE, testManager |-> NoTestManager]

\* afterBoot with the session recorded before the boot is awaited
afterBoot_recordFirst(reg, session, ok) == Append(reg, session)

\* the registry after await bootSimulator() settled: the session is recorded
\* only when it resolved, a rejection propagates out of createSession
afterBoot(reg, session, ok) == IF ok THEN Append(reg, session) ELSE reg

\* endSessionOutcome with a teardown failure rethrown
endSessionOutcome_rethrow(call) ==
    IF call.fails = {} THEN "none" ELSE "teardown-failed"

\* endSession returns normally whatever its teardown steps did: each failure
\* was caught and logged
endSessionOutcome(call) == "none"

\* cleanupOutcome with the collected failures thrown at the end
cleanupOutcome_rethrow(call) ==
    IF call.fails = {} THEN "none" ELSE "cleanup-failed"

\* cleanup returns normally whatever endSession threw: each failure was
\* caught and logged
cleanupOutcome(call) == "none"

\* a createSession that gets past validation is concurrent with every
\* cleanup() that is in flight
markOverlap(cs) ==
    LET mark(x) == IF x.op = "cleanup" THEN [x EXCEPT !.overlap = TRUE] ELSE x
    IN  [y \in { mark(x) : x \in BagToSet(cs) } |->
            IF y.op = "cleanup"
            THEN CopiesIn(y, cs) + CopiesIn([y EXCEPT !.overlap = FALSE], cs)
            ELSE CopiesIn(y, cs)]

Configure(prefix) ==
    /\ allowedPathPrefix' = prefix
    /\ ret' = [NoRet EXCEPT !.op = "configure"]
    /\ UNCHANGED <<sessionState, nextUuid, nextUdid, devices, calls, request>>

\* createSession up to its first await: validation, uuidv4(), createSimulator()
CreateSession(worktreePath) ==
    /\ BagCardinality(calls) < MaxCalls
    /\ LET v == validateProjectPath(allowedPathPrefix, worktreePath)
       IN  IF v # "ok"
           THEN /\ ret' = [NoRet EXCEPT !.op = "createSession", !.err = v,
                                        !.path = worktreePath]
                /\ UNCHANGED <<calls, nextUuid>>
           ELSE /\ nextUuid <= MaxCreates
                /\ calls' = markOverlap(calls) (+) SetToBag({
                                [NoCall EXCEPT !.op = "createSession",
                                               !.pc = "createSimulator",
                                               !.sid = nextUuid,
                                               !.path = worktreePath,
                                               !.trace = <<"createSimulator">>]})
                /\ nextUuid' = nextUuid + 1
                /\ ret' = NoRet
    /\ UNCHANGED <<allowedPathPrefix, sessionState, nextUdid, devices, request>>

\* await createSimulator(deviceType) settles; on success bootSimulator() is called
CreateSimulatorSettles(call, ok) ==
    /\ call.op = "createSession" /\ call.pc = "createSimulator"
    /\ IF ok
       THEN /\ calls' = replaceCall(call, [call EXCEPT !.pc = "bootSimulator",
                                                       !.udid = nextUdid,
                                                       !.trace = Append(@, "bootSimulator")])
            /\ devices' = devices \cup {nextUdid}
            /\ nextUdid' = nextUdid + 1
            /\ ret' = NoRet
       ELSE /\ calls' = removeCall(call)
            /\ ret' = [NoRet EXCEPT !.op = "createSession", !.err = "create-failed",
                                    !.sid = call.sid, !.path = call.path,
                                    !.trace = call.trace]
            /\ UNCHANGED <<devices, nextUdid>>
    /\ UNCHANGED <<allowedPathPrefix, sessionState, nextUuid, request>>

\* await bootSimulator(udid) settles; on success the session is recorded
BootSimulatorSettles(call, ok) ==
    /\ call.op = "createSession" /\ call.pc = "bootSimulator"
    /\ LET session == newSession(call.sid, call.path, call.udid)
       IN  /\ sessionState' = afterBoot(sessionState, session, ok)
           /\ ret' = [NoRet EXCEPT !.op = "createSession",
                                   !.err = IF ok THEN "none" ELSE "boot-failed",
                                   !.sid = call.sid, !.udid = call.udid,
                                   !.path = call.path,
                                   !.wpath = IF ok THEN session.worktreePath ELSE <<>>,
                                   !.trace = call.trace]
    /\ calls' = removeCall(call)
    /\ UNCHANGED <<allowedPathPrefix, nextUuid, nextUdid, devices, request>>

\* endSession after its lookup found session s, up to its first await: the
\* supervisor's cleanup() when one is attached, else shutdownSimulator()
beginEndSession(call, s) ==
    [call EXCEPT !.sid = s.id, !.udid = s.simulatorUdid, !.hasSup = s.hasSup,
                 !.pc = IF s.hasSup THEN "cleanup" ELSE "shutdownSimulator",
                 !.trace = IF s.hasSup THEN <<"cleanup">> ELSE <<"shutdownSimulator">>]

\* afterAwait with shutdown and deletion in one try block: a failed shutdown
\* skips the deletion
afterAwait_oneTry(call, ok) ==
    LET failed == IF ok THEN call.fails ELSE call.fails \cup {call.pc}
    IN  IF call.pc = "cleanup"
        THEN [call EXCEPT !.pc = "shutdownSimulator", !.fails = failed,
                          !.trace = Append(@, "shutdownSimulator")]
        ELSE IF call.pc = "shutdownSimulator" /\ ok
        THEN [call EXCEPT !.pc = "deleteSimulator", !.fails = failed,
                          !.trace = Append(@, "deleteSimulator")]
        ELSE [call EXCEPT !.pc = "delete", !.fails = failed,
                          !.trace = Append(@, "delete")]

\* endSession: what follows the await of step call.pc, which settled with ok;
\* a failure is logged and the next step is taken all the same
afterAwait(call, ok) ==
    LET failed == IF ok THEN call.fails ELSE call.fails \cup {call.pc}
    IN  IF call.pc = "cleanup"
        THEN [call EXCEPT !.pc = "shutdownSimulator", !.fails = failed,
                          !.trace = Append(@, "shutdownSimulator")]
        ELSE IF call.pc = "shutdownSimulator"
        THEN [call EXCEPT !.pc = "deleteSimulator", !.fails = failed,
                          !.trace = Append(@, "deleteSimulator")]
        ELSE [call EXCEPT !.pc = "delete", !.fails = failed,
                          !.trace = Append(@, "delete")]

RECURSIVE firstRegistered(_, _)
\* the part of cleanup's snapshot starting at the first id still registered
firstRegistered(todo, ids) ==
    IF todo = <<>> \/ Head(todo) \in ids THEN todo
    ELSE firstRegistered(Tail(todo), ids)

\* cleanup's loop over the rest of its snapshot, given registry reg: endSession
\* of an id that is no longer registered throws, which is caught and logged;
\* the loop stops at the first await. Returns the call record, with pc "return"
\* when the loop is over.
cleanupLoop(call, reg) ==
    LET ids == { reg[i].id : i \in 1..Len(reg) }
        rest == firstRegistered(call.todo, ids)
        skipped == SubSeq(call.todo, 1, Len(call.todo) - Len(rest))
        seen == [call EXCEPT !.ended = @ \o skipped,
                             !.fails = IF skipped = <<>> THEN @
                                       ELSE @ \cup {"session-not-found"}]
    IN  IF rest = <<>>
        THEN [seen EXCEPT !.pc = "return", !.todo = <<>>]
        ELSE beginEndSession(
                 [seen EXCEPT !.todo = Tail(rest), !.ended = Append(@, Head(rest))],
                 reg[CHOOSE i \in 1..Len(reg) : reg[i].id = Head(rest)])

retOf(call, op, err) ==
    [NoRet EXCEPT !.op = op, !.err = err, !.sid = call.sid, !.udid = call.udid,
                  !.hasSup = call.hasSup, !.trace = call.trace, !.fails = call.fails,
                  !.snap = call.snap, !.ended = call.ended, !.overlap = call.overlap]

\* the call `call` goes on as `next`: it waits at its next await, or removes
\* the session from the registry and returns (endSession) or goes on with the
\* next session (cleanup)
Resume(call, next) ==
    IF next.pc = "delete"
    THEN LET reg == deleteSession(sessionState, next.sid)
             loop == IF next.op = "cleanup" THEN cleanupLoop(next, reg) ELSE next
         IN  /\ sessionState' = reg
             /\ IF next.op = "endSession"
                THEN /\ calls' = removeCall(call)
                     /\ ret' = retOf(next, "endSession", endSessionOutcome(next))
                ELSE IF loop.pc = "return"
                THEN /\ calls' = removeCall(call)
                     /\ ret' = retOf(loop, "cleanup", cleanupOutcome(loop))
                ELSE /\ calls' = replaceCall(call, loop)
                     /\ ret' = NoRet
    ELSE /\ calls' = replaceCall(call, next)
         /\ ret' = NoRet
         /\ UNCHANGED sessionState

\* endSession up to its first await
EndSession(sessionId) ==
    /\ BagCardinality(calls) < MaxCalls
    /\ IF hasSession(sessionId)
       THEN /\ calls' = calls (+) SetToBag({
                            beginEndSession([NoCall EXCEPT !.op = "endSession"],
                                            getSession(sessionId))})
            /\ ret' = NoRet
       ELSE /\ ret' = [NoRet EXCEPT !.op = "endSession", !.err = "session-not-found",
                                    !.sid = sessionId]
            /\ UNCHANGED calls
    /\ UNCHANGED <<allowedPathPrefix, sessionState, nextUuid, nextUdid, devices, request>>

\* await session.flutterProcessManager.cleanup() settles
SupervisorCleanupSettles(call, ok) ==
    /\ call.pc = "cleanup"
    /\ Resume(call, afterAwait(call, ok))
    /\ UNCHANGED <<allowedPathPrefix, nextUuid, nextUdid, devices, request>>

\* await shutdownSimulator(udid) settles
ShutdownSimulatorSettles(call, ok) ==
    /\ call.pc = "shutdownSimulator"
    /\ Resume(call, afterAwait(call, ok))
    /\ UNCHANGED <<allowedPathPrefix, nextUuid, nextUdid, devices, request>>

\* await deleteSimulator(udid) settles
DeleteSimulatorSettles(call, ok) ==
    /\ call.pc = "deleteSimulator"
    /\ devices' = IF ok THEN devices \ {call.udid} ELSE devices
    /\ Resume(call, afterAwait(call, ok))
    /\ UNCHANGED <<allowedPathPrefix, nextUuid, nextUdid, request>>

\* cleanup(): snapshot of the registry, then endSession for each in turn
Cleanup ==
    /\ BagCardinality(calls) < MaxCalls
    /\ LET start == cleanupLoop(
                        [NoCall EXCEPT !.op = "cleanup", !.todo = listSessions,
                                       !.snap = sessionIds,
                                       !.overlap = \E d \in inFlight :
                                                      d.op = "createSession"],
                        sessionState)
       IN  IF start.pc = "return"
           THEN /\ ret' = retOf(start, "cleanup", cleanupOutcome(start))
                /\ UNCHANGED calls
           ELSE /\ calls' = calls (+) SetToBag({start})
                /\ ret' = NoRet
    /\ UNCHANGED <<allowedPathPrefix, sessionState, nextUuid, nextUdid, devices, request>>

\* a tool handler attaches a FlutterProcessManager to a registered session
AttachSupervisor(sessionId) ==
    /\ hasSession(sessionId)
    /\ ~getSession(sessionId).hasSup
    /\ sessionState' = [i \in 1..Len(sessionState) |->
                           IF sessionState[i].id = sessionId
                           THEN [sessionState[i] EXCEPT !.hasSup = TRUE]
                           ELSE sessionState[i]]
    /\ ret' = NoRet
    /\ UNCHANGED <<allowedPathPrefix, nextUuid, nextUdid, devices, calls, request>>

\* ------------------------------------------------------------------------
\* FlutterProcessManager: validation of the options of start()
\* ------------------------------------------------------------------------
Lower == { "a", "b", "c", "d", "e", "f", "g", "h", "i", "j", "k", "l", "m", "n", "o", "p", "q", "r", "s", "t", "u", "v", "w", "x", "y", "z" }
Upper == { "A", "B", "C", "D", "E", "F", "G", "H", "I", "J", "K", "L", "M", "N", "O", "P", "Q", "R", "S", "T", "U", "V", "W", "X", "Y", "Z" }
Digit == { "0", "1", "2", "3", "4", "5", "6", "7", "8", "9" }

\* characters "." does not match in a JavaScript regular expression
LineTerminator == { "\n", "\r" }

chars(s) == { s[i] : i \in 1..Len(s) }

DOT_DART == <<".", "d", "a", "r", "t">>
DART_DEFINE == <<"-", "-", "d", "a", "r", "t", "-", "d", "e", "f", "i", "n", "e", "=">>

ALLOWED_ARGS ==
    { <<"-", "-", "d", "e", "b", "u", "g">>,
      <<"-", "-", "r", "e", "l", "e", "a", "s", "e">>,
      <<"-", "-", "p", "r", "o", "f", "i", "l", "e">>,
      <<"-", "-", "n", "o", "-", "s", "o", "u", "n", "d", "-", "n", "u", "l", "l", "-", "s", "a", "f", "e", "t", "y">>,
      <<"-", "-", "e", "n", "a", "b", "l", "e", "-", "s", "o", "f", "t", "w", "a", "r", "e", "-", "r", "e", "n", "d", "e", "r", "i", "n", "g">>,
      <<"-", "-", "v", "e", "r", "b", "o", "s", "e">>,
      <<"-", "v">> }

\* /^[a-zA-Z0-9_-]+$/.test(flavor)
flavorOk(flavor) ==
    flavor # <<>> /\ chars(flavor) \subseteq (Lower \cup Upper \cup Digit \cup {"_", "-"})

\* /^[A-Za-z_][A-Za-z0-9_]*=.*$/.test(defineValue)
defineOk(defineValue) ==
    \E k \in 2..Len(defineValue) :
        /\ defineValue[k] = "="
        /\ defineValue[1] \in (Lower \cup Upper \cup {"_"})
        /\ \A i \in 2..(k - 1) : defineValue[i] \in (Lower \cup Upper \cup Digit \cup {"_"})
        /\ \A i \in (k + 1)..Len(defineValue) : defineValue[i] \notin LineTerminator

\* argOk with every --dart-define=... let through
argOk_anyDefine(arg) == arg \in ALLOWED_ARGS \/ startsWith(arg, DART_DEFINE)

\* one pass of the loop over additionalArgs
argOk(arg) ==
    \/ arg \in ALLOWED_ARGS
    \/ /\ startsWith(arg, DART_DEFINE)
       /\ defineOk(SubSeq(arg, Len(DART_DEFINE) + 1, Len(arg)))

\* the checks of start() on its options, in the code's order, once the
\* supervisor is known to have no process; an empty target or flavor is
\* one that was not given
validateStart(options) ==
    LET targetPath == resolve2(options.worktreePath, options.target)
    IN  IF options.target # <<>>
           /\ ~startsWith(targetPath, resolve(options.worktreePath))
        THEN "path-escape"
        ELSE IF options.target # <<>> /\ ~existsSync(targetPath) THEN "not-found"
        ELSE IF options.target # <<>> /\ ~endsWith(targetPath, DOT_DART)
        THEN "invalid-entry-type"
        ELSE IF options.flavor # <<>> /\ ~flavorOk(options.flavor) THEN "invalid-flavor"
        ELSE IF \E i \in 1..Len(options.additionalArgs) : ~argOk(options.additionalArgs[i])
        THEN "invalid-argument"
        ELSE "ok"

\* the argument named by the invalid-argument error: the first one the loop
\* does not accept
offendingArg(options) ==
    LET bad == { i \in 1..Len(options.additionalArgs) : ~argOk(options.additionalArgs[i]) }
    IN  options.additionalArgs[CHOOSE i \in bad : \A j \in bad : i <= j]

\* the argument vector handed to spawnStreaming('flutter', args, ...)
buildArgs(options) ==
    <<<<"r", "u", "n">>, <<"-", "d">>, options.deviceId>>
    \o (IF options.target # <<>> THEN <<<<"-", "t">>, options.target>> ELSE <<>>)
    \o (IF options.flavor # <<>> THEN <<<<"-", "-", "f", "l", "a", "v", "o", "r">>, options.flavor>> ELSE <<>>)
    \o options.additionalArgs

\* ------------------------------------------------------------------------
\* Inputs handed to start()
\* ------------------------------------------------------------------------
ProjectDir == <<"/", "u", "/", "p">>
DeviceId == <<"D", "1">>

\* entry files, relative to the project unless absolute; <<>> is none
TargetPool ==
    { <<>>,
      <<"m", ".", "d", "a", "r", "t">>,
      <<".", ".", "/", "p", "/", "m", ".", "d", "a", "r", "t">>,
      <<".", ".", "/", "p", "b", "/", "m", ".", "d", "a", "r", "t">>,
      <<".", ".", "/", ".", ".", "/", "e", "/", "m", ".", "d", "a", "r", "t">>,
      <<"/", "e", "/", "m", ".", "d", "a", "r", "t">>,
      <<"n", ".", "t", "x", "t">>,
      <<"x", ".", "d", "a", "r", "t">>,
      <<".", ".", "/", "p", "b", "/", "x", ".", "d", "a", "r", "t">> }

FlavorPool ==
    { <<>>,
      <<"d", "e", "v">>,
      <<"Q", "a", "-", "1", "_", "b">>,
      <<"a", ";", "b">>,
      <<"$", "(", "x", ")">> }

ArgPool ==
    { <<"-", "-", "d", "e", "b", "u", "g">>,
      <<"-", "v">>,
      <<"-", "-", "d", "a", "r", "t", "-", "d", "e", "f", "i", "n", "e", "=", "F", "O", "O", "=", "b", "a", "r">>,
      <<"-", "-", "d", "a", "r", "t", "-", "d", "e", "f", "i", "n", "e", "=", "1", "F", "O", "O", "=", "b", "a", "r">>,
      <<"-", "-", "d", "a", "n", "g", "e", "r", "o", "u", "s", "=", "$", "(", "r", "m", " ", "-", "r", "f", " ", "/", ")">>,
      <<"-", "-", "d", "a", "r", "t", "-", "d", "e", "f", "i", "n", "e", "=", "_", "a", "1", "=">>,
      <<"-", "-", "d", "a", "r", "t", "-", "d", "e", "f", "i", "n", "e", "=", "=", "x">>,
      <<"-", "-", "d", "a", "r", "t", "-", "d", "e", "f", "i", "n", "e", "=", "F", "O", "O">>,
      <<"-", "-", "d", "a", "r", "t", "-", "d", "e", "f", "i", "n", "e", "=", "A", "=", "x", "\n", "y">>,
      <<"-", "-", "d", "a", "r", "t", "-", "d", "e", "f", "i", "n", "e", "=", "X", "=", "$", "(", "r", "m", ")">>,
      <<" ", "-", "-", "d", "e", "b", "u", "g">> }

ArgLists(n) == UNION { [1..k -> ArgPool] : k \in 0..n }

mkOptions(target, flavor, additionalArgs) ==
    [worktreePath |-> ProjectDir, deviceId |-> DeviceId, target |-> target,
     flavor |-> flavor, additionalArgs |-> additionalArgs]

\* the options of the single client
OptionsPool ==
    { mkOptions(t, f, a) : t \in TargetPool, f \in FlavorPool, a \in ArgLists(MaxArgs) }

NoOptions == mkOptions(<<>>, <<>>, <<>>)

\* the options clients of a supervisor in use ask for: one accepted, and one
\* for each way of being rejected
SomeOptions ==
    { NoOptions,
      mkOptions(<<"m", ".", "d", "a", "r", "t">>, <<"d", "e", "v">>, <<<<"-", "-", "d", "e", "b", "u", "g">>, <<"-", "-", "d", "a", "r", "t", "-", "d", "e", "f", "i", "n", "e", "=", "F", "O", "O", "=", "b", "a", "r">>>>),
      mkOptions(<<".", ".", "/", ".", ".", "/", "e", "/", "m", ".", "d", "a", "r", "t">>, <<>>, <<>>),
      mkOptions(<<"x", ".", "d", "a", "r", "t">>, <<>>, <<>>),
      mkOptions(<<"n", ".", "t", "x", "t">>, <<>>, <<>>),
      mkOptions(<<>>, <<"a", ";", "b">>, <<>>),
      mkOptions(<<>>, <<>>, <<<<"-", "-", "d", "a", "n", "g", "e", "r", "o", "u", "s", "=", "$", "(", "r", "m", " ", "-", "r", "f", " ", "/", ")">>>>) }

\* ------------------------------------------------------------------------
\* LogBuffer
\* ------------------------------------------------------------------------

\* append that evicts one entry too early
append_offByOne(buf, line) ==
    LET pushed == Append(buf.logs, [line |-> line, index |-> buf.currentIndex])
    IN  [logs |-> IF Len(pushed) >= MaxLines THEN Tail(pushed) ELSE pushed,
         currentIndex |-> buf.currentIndex + 1]

\* LogBuffer.append: the buffer [logs, currentIndex] after appending line
append(buf, line) ==
    LET pushed == Append(buf.logs, [line |-> line, index |-> buf.currentIndex])
    IN  [logs |-> IF Len(pushed) > MaxLines THEN Tail(pushed) ELSE pushed,
         currentIndex |-> buf.currentIndex + 1]

\* getLogs with the entries after fromIndex, fromIndex itself left out
getLogs_after(buf, hasFrom, fromIndex, limit) ==
    IF hasFrom /\ fromIndex < 0 THEN [err |-> "invalid-argument", logs |-> <<>>]
    ELSE IF limit <= 0 THEN [err |-> "invalid-argument", logs |-> <<>>]
    ELSE LET filtered == IF hasFrom
                         THEN SelectSeq(buf.logs, LAMBDA entry : entry.index > fromIndex)
                         ELSE buf.logs
         IN  [err |-> "none",
              logs |-> SubSeq(filtered, 1, IF limit < Len(filtered) THEN limit
                                           ELSE Len(filtered))]

\* LogBuffer.getLogs(fromIndex, limit); hasFrom is false when fromIndex is
\* undefined
getLogs(buf, hasFrom, fromIndex, limit) ==
    IF hasFrom /\ fromIndex < 0 THEN [err |-> "invalid-argument", logs |-> <<>>]
    ELSE IF limit <= 0 THEN [err |-> "invalid-argument", logs |-> <<>>]
    ELSE LET filtered == IF hasFrom
                         THEN SelectSeq(buf.logs, LAMBDA entry : entry.index >= fromIndex)
                         ELSE buf.logs
         IN  [err |-> "none",
              logs |-> SubSeq(filtered, 1, IF limit < Len(filtered) THEN limit
                                           ELSE Len(filtered))]

\* LogBuffer.clear
clear(buf) == [logs |-> <<>>, currentIndex |-> 0]

\* ------------------------------------------------------------------------
\* FlutterProcessManager
\* ------------------------------------------------------------------------
NoProcess == [id |-> 0, pid |-> 0]

NoFlutterProcess == [pid |-> 0, status |-> "none", stopped |-> FALSE,
                     hasExitCode |-> FALSE, exitCode |-> 0]

NoCleanup == [pc |-> "none", proc |-> 0]

\* what a supervisor step was given and what it returned
NoOut == [op |-> "none", err |-> "none", options |-> NoOptions,
          args |-> <<>>, cwd |-> <<>>, result |-> FALSE,
          hasCode |-> FALSE, code |-> 0, data |-> <<>>, notified |-> <<>>,
          caught |-> 0, hasFrom |-> FALSE, fromIndex |-> 0, limit |-> 0,
          logs |-> <<>>, nextIndex |-> 0, totalLines |-> 0]

Whitespace == { " ", "\t", "\n", "\r" }

HOT_RELOAD == <<"H", "o", "t", " ", "r", "e", "l", "o", "a", "d">>
RELOADED == <<"R", "e", "l", "o", "a", "d", "e", "d">>

\* String.prototype.includes
includes(s, sub) ==
    \E i \in 1..(Len(s) - Len(sub) + 1) : SubSeq(s, i, i + Len(sub) - 1) = sub

\* line.trim() is not the empty string
notBlank(line) == \E i \in 1..Len(line) : line[i] \notin Whitespace

isMarker(line) == includes(line, HOT_RELOAD) \/ includes(line, RELOADED)

\* startVerdict with no check for an attached subprocess
startVerdict_noCheck(proc, options) == validateStart(options)

\* the verdict of start(): already-running, the first failing check, or ok
startVerdict(proc, options) ==
    IF proc.id # 0 THEN "already-running" ELSE validateStart(options)

\* statusAfterStart with the record set up before the options are checked
statusAfterStart_early(fp, verdict, pid) ==
    IF verdict = "already-running" THEN fp
    ELSE [NoFlutterProcess EXCEPT !.pid = pid,
                                  !.status = IF pid # 0 THEN "running" ELSE "starting"]

\* the status record after start() with the given verdict; pid is the process
\* id the spawned handle reports, 0 when it reports none
statusAfterStart(fp, verdict, pid) ==
    IF verdict = "ok"
    THEN [NoFlutterProcess EXCEPT !.pid = pid,
                                  !.status = IF pid # 0 THEN "running" ELSE "starting"]
    ELSE fp

Start(options) ==
    LET verdict == startVerdict(process, options)
    IN  \E pid \in {0, spawns + 1} :
          /\ flutterProcess' = statusAfterStart(flutterProcess, verdict, pid)
          /\ IF verdict = "ok"
             THEN /\ spawns < MaxStarts
                  /\ spawns' = spawns + 1
                  /\ process' = [id |-> spawns + 1, pid |-> pid]
                  /\ alive' = alive \cup {spawns + 1}
                  /\ out' = [NoOut EXCEPT !.op = "start", !.options = options,
                                          !.args = buildArgs(options),
                                          !.cwd = options.worktreePath]
             ELSE /\ pid = 0
                  /\ out' = [NoOut EXCEPT !.op = "start", !.err = verdict,
                                          !.options = options,
                                          !.args = IF verdict = "invalid-argument"
                                                   THEN <<offendingArg(options)>>
                                                   ELSE <<>>]
                  /\ UNCHANGED <<process, spawns, alive>>
          /\ UNCHANGED <<logs, currentIndex, history, logSubscribers, timers, sent,
                         cleanupCall, startOptions>>

\* notify with no try/catch around the call of a subscriber: the first one
\* that throws ends the loop and the error leaves handleOutput
notify_noCatch(subs, throwers, line) ==
    LET bad == subs \cap throwers
        first == CHOOSE t \in bad : \A u \in bad : t <= u
    IN  IF bad = {} THEN [called |-> [s \in subs |-> 1], caught |-> 0, thrown |-> FALSE]
        ELSE [called |-> [s \in { t \in subs : t <= first } |-> 1], caught |-> 0,
              thrown |-> TRUE]

\* the forEach over logSubscribers for one line: how many times each
\* callback was called, how many errors were caught and logged, and whether
\* an error leaves handleOutput; throwers are the callbacks that throw when
\* called
notify(subs, throwers, line) ==
    [called |-> [s \in subs |-> 1], caught |-> Cardinality(subs \cap throwers),
     thrown |-> FALSE]

\* detectStatusChanges(line) on the state st of handleOutput
detectStatusChanges(st, line) ==
    IF st.fp.status # "none" /\ isMarker(line)
    THEN [st EXCEPT !.fp.status = "hot-reloading", !.timers = @ + 1]
    ELSE st

RECURSIVE handleLines(_, _, _, _)
\* the loop of handleOutput over the lines of a chunk, on the state
\* st = [buf, fp, timers, notified, caught, thrown]
handleLines(st, lines, subs, throwers) ==
    IF lines = <<>> THEN st
    ELSE LET line == Head(lines)
             n == notify(subs, throwers, line)
             kept == [st EXCEPT !.buf = append(st.buf, line),
                                !.notified = Append(@, [line |-> line,
                                                        called |-> n.called]),
                                !.caught = @ + n.caught,
                                !.thrown = n.thrown]
         IN  IF ~notBlank(line) THEN handleLines(st, Tail(lines), subs, throwers)
             ELSE IF n.thrown THEN kept
             ELSE handleLines(detectStatusChanges(kept, line), Tail(lines),
                              subs, throwers)

\* onStdout / onStderr: a chunk of output of a subprocess this supervisor
\* spawned; throwers are the callbacks that throw on this chunk
HandleOutput(data, throwers) ==
    /\ spawns > 0
    /\ LET st == handleLines([buf |-> [logs |-> logs, currentIndex |-> currentIndex],
                              fp |-> flutterProcess, timers |-> timers,
                              notified |-> <<>>, caught |-> 0, thrown |-> FALSE],
                             split(data, "\n"), logSubscribers, throwers)
           n == st.buf.currentIndex - currentIndex
       IN  /\ history.appended + n <= MaxAppends
           /\ st.timers <= MaxTimers
           /\ logs' = st.buf.logs
           /\ currentIndex' = st.buf.currentIndex
           /\ history' = [history EXCEPT !.appended = @ + n]
           /\ flutterProcess' = st.fp
           /\ timers' = st.timers
           /\ out' = [NoOut EXCEPT !.op = "handleOutput",
                                   !.err = IF st.thrown THEN "subscriber-error"
                                           ELSE "none",
                                   !.data = data,
                                   !.notified = st.notified,
                                   !.caught = st.caught]
    /\ UNCHANGED <<process, alive, logSubscribers, spawns, sent, cleanupCall,
                   startOptions>>

\* the 1000 ms timer set by detectStatusChanges fires
HotReloadTimerFires ==
    /\ timers > 0
    /\ timers' = timers - 1
    /\ flutterProcess' = IF flutterProcess.status # "none"
                         THEN [flutterProcess EXCEPT !.status = "running"]
                         ELSE flutterProcess
    /\ out' = NoOut
    /\ UNCHANGED <<process, alive, logs, currentIndex, history, logSubscribers,
                   spawns, sent, cleanupCall, startOptions>>

\* handleExit that keeps the handle of the subprocess
handleExit_keepHandle(proc) == proc

\* handleExit: the handle after the exit of a subprocess was handled
handleExit(proc) == NoProcess

\* onExit: a subprocess exited with code, or with no code (hasCode false)
\* when a signal ended it
HandleExit(hasCode, code) ==
    /\ \E id \in alive : alive' = alive \ {id}
    /\ flutterProcess' = IF flutterProcess.status # "none"
                         THEN [flutterProcess EXCEPT
                                  !.status = IF hasCode /\ code = 0 THEN "stopped"
                                             ELSE "failed",
                                  !.stopped = TRUE,
                                  !.hasExitCode = hasCode,
                                  !.exitCode = IF hasCode THEN code ELSE 0]
                         ELSE flutterProcess
    /\ process' = handleExit(process)
    /\ out' = [NoOut EXCEPT !.op = "handleExit", !.hasCode = hasCode,
                            !.code = IF hasCode THEN code ELSE 0]
    /\ UNCHANGED <<logs, currentIndex, history, logSubscribers, timers, spawns, sent,
                   cleanupCall, startOptions>>

\* what is sent to subprocess proc: writes to its stdin, the end of its
\* stdin, signals
send(log, proc, whats) == log \o [i \in 1..Len(whats) |-> [id |-> proc.id, what |-> whats[i]]]

\* room kept in the bounded record for the kill of a cleanup() that waits
reserved == IF cleanupCall.pc = "waiting" THEN 1 ELSE 0

\* command with no test of this.process: without a subprocess the access to
\* the handle raises
command_unguarded(log, proc, whats) ==
    IF proc.id = 0
    THEN [err |-> "type-error", result |-> FALSE, sent |-> log]
    ELSE [err |-> "none", result |-> TRUE, sent |-> send(log, proc, whats)]

\* stop / hotReload / hotRestart / kill on the handle proc: false and nothing
\* sent with no subprocess attached, else whats are sent to it and true
command(log, proc, whats) ==
    IF proc.id = 0
    THEN [err |-> "none", result |-> FALSE, sent |-> log]
    ELSE [err |-> "none", result |-> TRUE, sent |-> send(log, proc, whats)]

\* stop / hotReload / hotRestart: the keystrokes are written to stdin (stop
\* also ends stdin)
Command(op, whats) ==
    /\ LET c == command(sent, process, whats)
       IN  /\ Len(c.sent) > Len(sent) => Len(c.sent) + reserved <= MaxSent
           /\ sent' = c.sent
           /\ out' = [NoOut EXCEPT !.op = op, !.err = c.err, !.result = c.result]
    /\ UNCHANGED <<process, flutterProcess, alive, logs, currentIndex, history,
                   logSubscribers, timers, spawns, cleanupCall, startOptions>>

Stop == Command("stop", <<"q", "end">>)

HotReload == Command("hotReload", <<"r">>)

HotRestart == Command("hotRestart", <<"R">>)

\* kill(signal): with a subprocess attached it returns what the handle's
\* kill(signal) returns
Kill(signal) ==
    /\ LET c == command(sent, process, <<signal>>)
       IN  /\ Len(c.sent) > Len(sent) => Len(c.sent) + reserved <= MaxSent
           /\ sent' = c.sent
           /\ \E delivered \in BOOLEAN :
                 /\ ~c.result => ~delivered
                 /\ out' = [NoOut EXCEPT !.op = "kill", !.err = c.err,
                                         !.result = delivered]
    /\ UNCHANGED <<process, flutterProcess, alive, logs, currentIndex, history,
                   logSubscribers, timers, spawns, cleanupCall, startOptions>>

\* getLogs(fromIndex, limit): the page, nextIndex and totalLines
GetLogs(hasFrom, fromIndex, limit) ==
    /\ LET page == getLogs([logs |-> logs, currentIndex |-> currentIndex],
                            hasFrom, fromIndex, limit)
       IN  out' = [NoOut EXCEPT !.op = "getLogs", !.err = page.err,
                                !.hasFrom = hasFrom, !.fromIndex = fromIndex,
                                !.limit = limit,
                                !.logs = page.logs,
                                !.nextIndex = IF page.err = "none" THEN currentIndex
                                              ELSE 0,
                                !.totalLines = IF page.err = "none" THEN Len(logs)
                                               ELSE 0]
    /\ UNCHANGED <<supState, startOptions>>

SubscribeToLogs(callback) ==
    /\ logSubscribers' = logSubscribers \cup {callback}
    /\ out' = [NoOut EXCEPT !.op = "subscribeToLogs"]
    /\ UNCHANGED <<process, flutterProcess, alive, logs, currentIndex, history, timers,
                   spawns, sent, cleanupCall, startOptions>>

\* the closure subscribeToLogs returned for callback is called
Unsubscribe(callback) ==
    /\ callback \in logSubscribers
    /\ logSubscribers' = logSubscribers \ {callback}
    /\ out' = NoOut
    /\ UNCHANGED <<process, flutterProcess, alive, logs, currentIndex, history, timers,
                   spawns, sent, cleanupCall, startOptions>>

\* clearLogs(): LogBuffer.clear()
ClearLogs ==
    /\ LET buf == clear([logs |-> logs, currentIndex |-> currentIndex])
       IN  /\ logs' = buf.logs
           /\ currentIndex' = buf.currentIndex
    /\ history' = [history EXCEPT !.cleared = TRUE]
    /\ out' = [NoOut EXCEPT !.op = "clearLogs"]
    /\ UNCHANGED <<process, flutterProcess, alive, logSubscribers, timers, spawns, sent,
                   cleanupCall, startOptions>>

\* LogBuffer.append called directly
LogAppend(line) ==
    /\ history.appended < MaxAppends
    /\ LET buf == append([logs |-> logs, currentIndex |-> currentIndex], line)
       IN  /\ logs' = buf.logs
           /\ currentIndex' = buf.currentIndex
    /\ history' = [history EXCEPT !.appended = @ + 1]
    /\ out' = [NoOut EXCEPT !.op = "append", !.data = line]
    /\ UNCHANGED <<process, flutterProcess, alive, logSubscribers, timers, spawns, sent,
                   cleanupCall, startOptions>>

\* cleanup() up to its await: the subscribers are cleared and, with a
\* subprocess attached, stop() is called and the 5000 ms timeout is set; with
\* none it clears the logs and returns
SupervisorCleanup ==
    /\ cleanupCall.pc = "none"
    /\ logSubscribers' = {}
    /\ IF process.id # 0
       THEN /\ Len(sent) + 3 <= MaxSent
            /\ sent' = send(sent, process, <<"q", "end">>)
            /\ cleanupCall' = [pc |-> "waiting", proc |-> process.id]
            /\ out' = NoOut
            /\ UNCHANGED <<logs, currentIndex, history>>
       ELSE /\ logs' = clear([logs |-> logs, currentIndex |-> currentIndex]).logs
            /\ currentIndex' = clear([logs |-> logs,
                                      currentIndex |-> currentIndex]).currentIndex
            /\ history' = [history EXCEPT !.cleared = TRUE]
            /\ out' = [NoOut EXCEPT !.op = "cleanup"]
            /\ UNCHANGED <<sent, cleanupCall>>
    /\ UNCHANGED <<process, flutterProcess, alive, timers, spawns, startOptions>>

\* the promise cleanup() awaits resolved: clearLogs(), return
cleanupReturns ==
    /\ logs' = clear([logs |-> logs, currentIndex |-> currentIndex]).logs
    /\ currentIndex' = clear([logs |-> logs, currentIndex |-> currentIndex]).currentIndex
    /\ history' = [history EXCEPT !.cleared = TRUE]
    /\ cleanupCall' = NoCleanup
    /\ out' = [NoOut EXCEPT !.op = "cleanup"]
    /\ UNCHANGED <<process, flutterProcess, alive, logSubscribers, timers, spawns,
                   startOptions>>

\* the 5000 ms timeout of cleanup() fires: this.kill('SIGKILL'), resolve
CleanupTimeoutFires ==
    /\ cleanupCall.pc = "waiting"
    /\ sent' = IF process.id # 0 THEN send(sent, process, <<"SIGKILL">>) ELSE sent
    /\ cleanupReturns

\* currentProcess.wait() settles before the timeout fired: it resolves once
\* the subprocess has exited, or rejects; clearTimeout, resolve
WaitSettles(ok) ==
    /\ cleanupCall.pc = "waiting"
    /\ ok => cleanupCall.proc \notin alive
    /\ UNCHANGED sent
    /\ cleanupReturns

\* ------------------------------------------------------------------------
\* Inputs handed to a supervisor in use
\* ------------------------------------------------------------------------
Callbacks == {1, 2}

DataPool ==
    { <<"o", "k">>,
      <<"o", "k", "\n", " ", "\n">> \o RELOADED \o <<"\n">>,
      HOT_RELOAD,
      <<" ", "\n">> }

ExitCodes == {0, 1}

\* ------------------------------------------------------------------------
\* Initial states
\* ------------------------------------------------------------------------
RegInit ==
    /\ allowedPathPrefix = <<"/", "u">>
    /\ sessionState = <<>>
    /\ nextUuid = 1
    /\ nextUdid = 1
    /\ devices = {}
    /\ calls = EmptyBag
    /\ ret = NoRet
    /\ request = <<>>

SupInit ==
    /\ process = NoProcess
    /\ flutterProcess = NoFlutterProcess
    /\ logs = <<>>
    /\ currentIndex = 0
    /\ logSubscribers = {}
    /\ timers = 0
    /\ spawns = 0
    /\ alive = {}
    /\ sent = <<>>
    /\ cleanupCall = NoCleanup
    /\ history = [appended |-> 0, cleared |-> FALSE]
    /\ out = NoOut
    /\ startOptions = NoOptions

NoShutdown ==
    [signals |-> 0, cleanups |-> 0, closing |-> 0, transport |-> "open",
     server |-> "listening"]

NoReader == [fromIndex |-> 0, received |-> <<>>]

NoTestRuns == [nextReference |-> 1, startedBy |-> <<>>]

RestInit ==
    /\ shutdown = NoShutdown
    /\ reader = NoReader
    /\ testRuns = NoTestRuns

\* ------------------------------------------------------------------------
\* Spec: the registry under concurrent callers
\* ------------------------------------------------------------------------
Init == RegInit /\ SupInit /\ RestInit

Next ==
    \/ \E p \in ProjectPaths : CreateSession(p) /\ UNCHANGED <<supVars, restVars>>
    \/ \E call \in inFlight, ok \in BOOLEAN :
          CreateSimulatorSettles(call, ok) /\ UNCHANGED <<supVars, restVars>>
    \/ \E call \in inFlight, ok \in BOOLEAN :
          BootSimulatorSettles(call, ok) /\ UNCHANGED <<supVars, restVars>>
    \/ \E id \in 1..MaxCreates : EndSession(id) /\ UNCHANGED <<supVars, restVars>>
    \/ \E call \in inFlight, ok \in BOOLEAN :
          SupervisorCleanupSettles(call, ok) /\ UNCHANGED <<supVars, restVars>>
    \/ \E call \in inFlight, ok \in BOOLEAN :
          ShutdownSimulatorSettles(call, ok) /\ UNCHANGED <<supVars, restVars>>
    \/ \E call \in inFlight, ok \in BOOLEAN :
          DeleteSimulatorSettles(call, ok) /\ UNCHANGED <<supVars, restVars>>
    \/ Cleanup /\ UNCHANGED <<supVars, restVars>>
    \/ \E id \in 1..MaxCreates : AttachSupervisor(id) /\ UNCHANGED <<supVars, restVars>>

Spec == Init /\ [][Next]_vars

\* ------------------------------------------------------------------------
\* PathSpec: one client of the registry that asks for one project path and
\* waits for each call to return before it makes the next
\* ------------------------------------------------------------------------
PathInit ==
    /\ allowedPathPrefix \in PrefixPool
    /\ sessionState = <<>>
    /\ nextUuid = 1
    /\ nextUdid = 1
    /\ devices = {}
    /\ calls = EmptyBag
    /\ ret = NoRet
    /\ request \in PathPool
    /\ SupInit
    /\ RestInit

PathNext ==
    \/ calls = EmptyBag /\ \E prefix \in PrefixPool : Configure(prefix) /\ UNCHANGED <<supVars, restVars>>
    \/ calls = EmptyBag /\ CreateSession(request) /\ UNCHANGED <<supVars, restVars>>
    \/ \E call \in inFlight, ok \in BOOLEAN :
          CreateSimulatorSettles(call, ok) /\ UNCHANGED <<supVars, restVars>>
    \/ \E call \in inFlight, ok \in BOOLEAN :
          BootSimulatorSettles(call, ok) /\ UNCHANGED <<supVars, restVars>>
    \/ calls = EmptyBag /\ \E id \in 1..MaxCreates : EndSession(id) /\ UNCHANGED <<supVars, restVars>>
    \/ \E call \in inFlight, ok \in BOOLEAN :
          SupervisorCleanupSettles(call, ok) /\ UNCHANGED <<supVars, restVars>>
    \/ \E call \in inFlight, ok \in BOOLEAN :
          ShutdownSimulatorSettles(call, ok) /\ UNCHANGED <<supVars, restVars>>
    \/ \E call \in inFlight, ok \in BOOLEAN :
          DeleteSimulatorSettles(call, ok) /\ UNCHANGED <<supVars, restVars>>
    \/ calls = EmptyBag /\ Cleanup /\ UNCHANGED <<supVars, restVars>>
    \/ calls = EmptyBag /\ \E id \in 1..MaxCreates : AttachSupervisor(id) /\ UNCHANGED <<supVars, restVars>>

PathSpec == PathInit /\ [][PathNext]_vars

\* ------------------------------------------------------------------------
\* SupSpec: one supervisor in use
\* ------------------------------------------------------------------------
SupSpecInit == RegInit /\ SupInit /\ RestInit

SupNext ==
    \/ \E options \in SomeOptions : Start(options) /\ UNCHANGED <<regVars, restVars>>
    \/ \E data \in DataPool : HandleOutput(data, {}) /\ UNCHANGED <<regVars, restVars>>
    \/ HotReloadTimerFires /\ UNCHANGED <<regVars, restVars>>
    \/ \E code \in ExitCodes : HandleExit(TRUE, code) /\ UNCHANGED <<regVars, restVars>>
    \/ HandleExit(FALSE, 0) /\ UNCHANGED <<regVars, restVars>>
    \/ \E cb \in Callbacks : SubscribeToLogs(cb) /\ UNCHANGED <<regVars, restVars>>
    \/ \E cb \in Callbacks : Unsubscribe(cb) /\ UNCHANGED <<regVars, restVars>>
    \/ ClearLogs /\ UNCHANGED <<regVars, restVars>>

SupSpec == SupSpecInit /\ [][SupNext]_vars

\* ------------------------------------------------------------------------
\* StartSpec: one client that calls start() with one set of options, again
\* after each exit of the subprocess
\* ------------------------------------------------------------------------
StartInit ==
    /\ RegInit
    /\ process = NoProcess
    /\ flutterProcess = NoFlutterProcess
    /\ logs = <<>>
    /\ currentIndex = 0
    /\ logSubscribers = {}
    /\ timers = 0
    /\ spawns = 0
    /\ alive = {}
    /\ sent = <<>>
    /\ cleanupCall = NoCleanup
    /\ history = [appended |-> 0, cleared |-> FALSE]
    /\ out = NoOut
    /\ startOptions \in OptionsPool
    /\ RestInit

StartNext ==
    \/ Start(startOptions) /\ UNCHANGED <<regVars, restVars>>
    \/ \E code \in ExitCodes : HandleExit(TRUE, code) /\ UNCHANGED <<regVars, restVars>>
    \/ HandleExit(FALSE, 0) /\ UNCHANGED <<regVars, restVars>>

StartSpec == StartInit /\ [][StartNext]_vars


\* ------------------------------------------------------------------------
\* FanoutSpec: the subscribers of one supervisor, some of which throw
\* ------------------------------------------------------------------------
FanoutNext ==
    \/ Start(NoOptions) /\ UNCHANGED <<regVars, restVars>>
    \/ \E data \in DataPool, throwers \in SUBSET Callbacks :
          HandleOutput(data, throwers) /\ UNCHANGED <<regVars, restVars>>
    \/ \E cb \in Callbacks : SubscribeToLogs(cb) /\ UNCHANGED <<regVars, restVars>>
    \/ \E cb \in Callbacks : Unsubscribe(cb) /\ UNCHANGED <<regVars, restVars>>

FanoutSpec == SupSpecInit /\ [][FanoutNext]_vars

\* ------------------------------------------------------------------------
\* LifeSpec: the life of the subprocesses of one supervisor
\* ------------------------------------------------------------------------
Signals == {"SIGTERM", "SIGKILL"}

LifeNext ==
    \/ Start(NoOptions) /\ UNCHANGED <<regVars, restVars>>
    \/ \E code \in ExitCodes : HandleExit(TRUE, code) /\ UNCHANGED <<regVars, restVars>>
    \/ HandleExit(FALSE, 0) /\ UNCHANGED <<regVars, restVars>>
    \/ Stop /\ UNCHANGED <<regVars, restVars>>
    \/ HotReload /\ UNCHANGED <<regVars, restVars>>
    \/ HotRestart /\ UNCHANGED <<regVars, restVars>>
    \/ \E signal \in Signals : Kill(signal) /\ UNCHANGED <<regVars, restVars>>

LifeSpec == SupSpecInit /\ [][LifeNext]_vars

\* ------------------------------------------------------------------------
\* CleanupSpec: cleanup() of one supervisor, with the calls and events that
\* can come while it waits; CleanupLiveSpec: the same, where a timeout that
\* was set fires unless it is cleared
\* ------------------------------------------------------------------------
CleanupNext ==
    \/ Start(NoOptions) /\ UNCHANGED <<regVars, restVars>>
    \/ HandleOutput(<<"o", "k">>, {}) /\ UNCHANGED <<regVars, restVars>>
    \/ \E code \in ExitCodes : HandleExit(TRUE, code) /\ UNCHANGED <<regVars, restVars>>
    \/ HandleExit(FALSE, 0) /\ UNCHANGED <<regVars, restVars>>
    \/ \E cb \in Callbacks : SubscribeToLogs(cb) /\ UNCHANGED <<regVars, restVars>>
    \/ Stop /\ UNCHANGED <<regVars, restVars>>
    \/ SupervisorCleanup /\ UNCHANGED <<regVars, restVars>>
    \/ CleanupTimeoutFires /\ UNCHANGED <<regVars, restVars>>
    \/ \E ok \in BOOLEAN : WaitSettles(ok) /\ UNCHANGED <<regVars, restVars>>

CleanupSpec == SupSpecInit /\ [][CleanupNext]_vars

CleanupLiveSpec ==
    SupSpecInit /\ [][CleanupNext]_vars /\ WF_vars(CleanupTimeoutFires /\ UNCHANGED <<regVars, restVars>>)

\* ------------------------------------------------------------------------
\* BufSpec: one log buffer
\* ------------------------------------------------------------------------
LinePool == { <<"o", "k">>, <<"n", "o">> }

FromIndexes == (0 - 1)..(MaxAppends + 1)

Limits == (0 - 1)..(MaxLines + 1)

BufNext ==
    \/ \E line \in LinePool : LogAppend(line) /\ UNCHANGED <<regVars, restVars>>
    \/ \E fromIndex \in FromIndexes, limit \in Limits :
          GetLogs(TRUE, fromIndex, limit) /\ UNCHANGED <<regVars, restVars>>
    \/ \E limit \in Limits : GetLogs(FALSE, 0, limit) /\ UNCHANGED <<regVars, restVars>>
    \/ ClearLogs /\ UNCHANGED <<regVars, restVars>>

BufSpec == SupSpecInit /\ [][BufNext]_vars


\* ------------------------------------------------------------------------
\* Properties of the registry
\* ------------------------------------------------------------------------
ValidationErrors == {"access-denied", "not-found", "not-a-directory", "invalid-project"}

isProject(dir) == isDirectory(dir) /\ existsSync(join(dir, PUBSPEC))

\* C1: createSession of a path whose resolved form does not start with the
\* allowed prefix fails with access-denied, whatever the file system holds at
\* that place; it calls no simulator function, starts no call and leaves the
\* registry and the devices as they were.
C1_OutsidePrefixDenied ==
    [][ (ret'.op = "createSession"
           /\ ~startsWith(resolve(ret'.path), allowedPathPrefix))
        => /\ ret'.err = "access-denied"
           /\ ret'.trace = <<>>
           /\ UNCHANGED <<sessionState, devices, nextUdid, nextUuid, calls>> ]_vars

\* a path that begins with the prefix as given, and resolves to a Flutter
\* project outside the prefix, was denied
C1_TraversalDenied ==
    /\ ret.op = "createSession" /\ ret.err = "access-denied"
    /\ startsWith(ret.path, allowedPathPrefix)
    /\ isProject(resolve(ret.path))

\* C5: createSession reports the first failing check in the order
\* access-denied, not-found, not-a-directory, invalid-project; with any of
\* these errors no simulator function was called and the registry is unchanged.
C5_ChecksInOrder ==
    [][ ret'.op = "createSession"
        => LET rp == resolve(ret'.path)
               denied == ~startsWith(rp, allowedPathPrefix)
               missing == ~existsSync(rp)
               notDir == ~isDirectory(rp)
               noManifest == ~existsSync(join(rp, PUBSPEC))
           IN  /\ (ret'.err = "access-denied") <=> denied
               /\ (ret'.err = "not-found") <=> (~denied /\ missing)
               /\ (ret'.err = "not-a-directory") <=> (~denied /\ ~missing /\ notDir)
               /\ (ret'.err = "invalid-project")
                      <=> (~denied /\ ~missing /\ ~notDir /\ noManifest)
               /\ ret'.err \in ValidationErrors
                      => /\ ret'.trace = <<>>
                         /\ UNCHANGED <<sessionState, devices, nextUdid, nextUuid, calls>>
      ]_vars

\* a file under the prefix was rejected as not-a-directory
C5_FileRejected ==
    /\ ret.op = "createSession" /\ ret.err = "not-a-directory"
    /\ startsWith(resolve(ret.path), allowedPathPrefix)
    /\ ret.trace = <<>>

\* C6 (as claimed): for an absolute path that resolves to a Flutter project
\* under the prefix, createSession fails only if the simulator does, and the
\* path of the returned and of the recorded session is the resolved path.
C6_SessionPathResolved ==
    (ret.op = "createSession" /\ isAbsolute(ret.path)
       /\ startsWith(resolve(ret.path), allowedPathPrefix)
       /\ isProject(resolve(ret.path)))
    => /\ ret.err \in {"none", "create-failed", "boot-failed"}
       /\ ret.err = "none"
            => /\ ret.wpath = resolve(ret.path)
               /\ hasSession(ret.sid)
               /\ getSession(ret.sid).worktreePath = resolve(ret.path)

\* C7: a createSession whose createSimulator or bootSimulator fails returns
\* that failure and records nothing; the registry gains a session only in the
\* step in which createSession returns it.
C7_FailedCreateRecordsNothing ==
    [][ /\ (ret'.op = "createSession" /\ ret'.err # "none")
            => sessionState' = sessionState
        /\ \A call \in inFlight :
              (call.op = "createSession"
                 /\ ~\E d \in inFlight' : d.op = "createSession" /\ d.sid = call.sid)
              => /\ ret'.op = "createSession" /\ ret'.sid = call.sid
                 /\ (ret'.err = "none") <=> (call.sid \in sessionIds')
                 /\ ret'.err \in {"none", "create-failed", "boot-failed"}
        /\ sessionIds' \ sessionIds # {}
            => /\ ret'.op = "createSession" /\ ret'.err = "none"
               /\ sessionIds' \ sessionIds = {ret'.sid}
      ]_vars

\* bootSimulator failed after createSimulator succeeded, with a session
\* already registered
C7_BootFailed ==
    /\ ret.op = "createSession" /\ ret.err = "boot-failed"
    /\ ret.trace = <<"createSimulator", "bootSimulator">>
    /\ sessionState # <<>>
    /\ ret.sid \notin sessionIds

\* C8: endSession of a registered session returns normally and leaves the id
\* out of the registry, whichever of its teardown steps failed; it throws only
\* for an id that is not registered.
C8_EndSessionAlwaysRemoves ==
    [][ ret'.op = "endSession"
        => /\ ret'.sid \notin sessionIds'
           /\ ret'.err # "none"
                => /\ ret'.sid \notin sessionIds
                   /\ ret'.err = "session-not-found"
                   /\ ret'.trace = <<>>
      ]_vars

\* endSession returned normally although all three teardown steps failed
C8_AllStepsFailed ==
    /\ ret.op = "endSession" /\ ret.err = "none"
    /\ ret.fails = {"cleanup", "shutdownSimulator", "deleteSimulator"}
    /\ ret.sid \notin sessionIds

teardownPrefix(hasSup) == IF hasSup THEN <<"cleanup">> ELSE <<>>

\* C9: endSession takes its steps in the order supervisor cleanup (only with a
\* supervisor attached), shutdownSimulator, deleteSimulator, removal from the
\* registry, each once and whatever the earlier steps did; the session leaves
\* the registry only in the step in which a deleteSimulator for it settles.
C9_TeardownOrder ==
    /\ [](/\ \A call \in inFlight :
               call.op \in {"endSession", "cleanup"}
               => /\ call.pc \in {"cleanup", "shutdownSimulator", "deleteSimulator"}
                  /\ call.pc = "cleanup"
                       => call.hasSup /\ call.trace = <<"cleanup">>
                  /\ call.pc = "shutdownSimulator"
                       => call.trace = teardownPrefix(call.hasSup)
                                          \o <<"shutdownSimulator">>
                  /\ call.pc = "deleteSimulator"
                       => call.trace = teardownPrefix(call.hasSup)
                                          \o <<"shutdownSimulator", "deleteSimulator">>
          /\ (ret.op = "endSession" /\ ret.err = "none")
               => ret.trace = teardownPrefix(ret.hasSup)
                                 \o <<"shutdownSimulator", "deleteSimulator", "delete">>)
    /\ [][ \A id \in sessionIds \ sessionIds' :
              \E call \in inFlight :
                 /\ call.sid = id /\ call.pc = "deleteSimulator"
                 /\ CopiesIn(call, calls') < CopiesIn(call, calls) ]_vars

\* a session with a supervisor was ended through all four steps although its
\* supervisor cleanup and its shutdown failed
C9_LaterStepsAfterFailure ==
    /\ ret.op = "endSession" /\ ret.hasSup
    /\ {"cleanup", "shutdownSimulator"} \subseteq ret.fails
    /\ ret.trace = <<"cleanup", "shutdownSimulator", "deleteSimulator", "delete">>

\* C10: cleanup() calls endSession for every session registered when it is
\* called and returns normally whatever failed on the way; when it returns
\* none of those sessions is registered, and with no createSession concurrent
\* with it the registry is empty.
C10_CleanupEndsAll ==
    ret.op = "cleanup"
    => /\ ret.err = "none"
       /\ Len(ret.ended) = Cardinality(ret.snap)
       /\ { ret.ended[i] : i \in 1..Len(ret.ended) } = ret.snap
       /\ ret.snap \cap sessionIds = {}
       /\ ~ret.overlap => sessionState = <<>>

\* cleanup() of two sessions returned with the registry empty although a
\* shutdown failed and one of the sessions had already been removed by a
\* concurrent endSession
C10_CleanupDespiteFailure ==
    /\ ret.op = "cleanup" /\ Cardinality(ret.snap) = 2
    /\ {"shutdownSimulator", "session-not-found"} \subseteq ret.fails
    /\ ~ret.overlap
    /\ sessionState = <<>>

\* ------------------------------------------------------------------------
\* Properties of start()
\* ------------------------------------------------------------------------

\* file is the directory dir or lies below it
isUnder(file, dir) == file = dir \/ startsWith(file, dir \o Slash)

\* C2 (as claimed): start() with an entry file that resolves, relative to the
\* project path, to a place that is not under the project directory is
\* rejected with path-escape, and nothing is spawned.
C2_EntryFileUnderProject ==
    (/\ out.op = "start" /\ out.err # "already-running"
     /\ out.options.target # <<>>
     /\ ~isUnder(resolve2(out.options.worktreePath, out.options.target),
                 resolve(out.options.worktreePath)))
    => out.err = "path-escape" /\ out.args = <<>>

isIdentifier(s) ==
    /\ s # <<>>
    /\ s[1] \in (Lower \cup Upper \cup {"_"})
    /\ chars(s) \subseteq (Lower \cup Upper \cup Digit \cup {"_"})

\* arg is --dart-define=IDENTIFIER=value
hasDefineForm(arg) ==
    /\ startsWith(arg, DART_DEFINE)
    /\ \E k \in (Len(DART_DEFINE) + 1)..Len(arg) :
          arg[k] = "=" /\ isIdentifier(SubSeq(arg, Len(DART_DEFINE) + 1, k - 1))

permitted(arg) == arg \in ALLOWED_ARGS \/ hasDefineForm(arg)

\* C3: start() spawns only if every extra argument is on the allow-list or has
\* the form --dart-define=IDENTIFIER=value; an argument that is neither makes
\* it fail, with invalid-argument when nothing else is wrong with the call;
\* the subprocess gets run -d <deviceId> [-t <target>] [--flavor <flavor>]
\* followed by the extra arguments, unchanged and in order.
C3_ExtraArgsAllowListed ==
    out.op = "start"
    => LET o == out.options
           extra == o.additionalArgs
           bad == \E i \in 1..Len(extra) : ~permitted(extra[i])
       IN  /\ bad => out.err # "none"
           /\ (bad /\ o.target = <<>> /\ o.flavor = <<>> /\ out.err # "already-running")
                 => out.err = "invalid-argument"
           /\ out.err = "none"
                 => /\ \A i \in 1..Len(extra) : permitted(extra[i])
                    /\ out.args =
                          << <<"r", "u", "n">>, <<"-", "d">>, o.deviceId >>
                          \o (IF o.target = <<>> THEN <<>>
                              ELSE << <<"-", "t">>, o.target >>)
                          \o (IF o.flavor = <<>> THEN <<>>
                              ELSE << <<"-", "-", "f", "l", "a", "v", "o", "r">>,
                                      o.flavor >>)
                          \o extra

\* a subprocess was spawned with a target, a flavor, an allow-listed flag and a
\* --dart-define
C3_DefineAccepted ==
    /\ out.op = "start" /\ out.err = "none"
    /\ out.options.target # <<>> /\ out.options.flavor # <<>>
    /\ Len(out.options.additionalArgs) = 2
    /\ out.options.additionalArgs[1] \in ALLOWED_ARGS
    /\ hasDefineForm(out.options.additionalArgs[2])
    /\ Len(out.args) = 9

\* C4: a start() that is rejected spawns nothing and leaves the status record,
\* the process handle, the log buffer and the subscribers as they were.
C4_RejectedStartChangesNothing ==
    [][ (out'.op = "start" /\ out'.err # "none") => UNCHANGED supState ]_vars

\* a start() was rejected for its flavor on a supervisor whose earlier
\* subprocess has exited, with lines in the buffer and a subscriber
C4_RejectedAfterUse ==
    /\ out.op = "start" /\ out.err = "invalid-flavor"
    /\ flutterProcess.status \in {"stopped", "failed"}
    /\ logs # <<>> /\ logSubscribers # {}
    /\ spawns = 1

\* ------------------------------------------------------------------------
\* Properties of the registry under concurrent callers
\* ------------------------------------------------------------------------

\* the call is between endSession's lookup of session call.sid and the removal
\* of that session from the registry
inTeardown(call) ==
    /\ call.op \in {"endSession", "cleanup"}
    /\ call.pc \in {"cleanup", "shutdownSimulator", "deleteSimulator"}

\* while a teardown of a session is in progress getSession/listSessions do
\* not hand the session out
notHandedOut == \A c \in inFlight : inTeardown(c) => ~hasSession(c.sid)

\* no two calls in flight run the teardown steps for the same session
oneTeardown ==
    \A c \in inFlight :
       inTeardown(c) =>
          /\ CopiesIn(c, calls) = 1
          /\ \A d \in inFlight : inTeardown(d) /\ d.sid = c.sid => d = c

\* no session id is registered while its createSession is in flight
notVisibleBeforeBoot ==
    \A c \in inFlight : c.op = "createSession" => ~hasSession(c.sid)

\* C11: a session id is never usable while its teardown is in progress: while
\* an endSession (of a caller or of cleanup()) is between its lookup and its
\* removal of the entry, getSession/listSessions do not hand the session out
\* and no second call runs the teardown steps for the same session; and no
\* session id is in the registry while its createSession is still creating
\* or booting the simulator.
C11_NoUseDuringTeardown == notHandedOut /\ oneTeardown /\ notVisibleBeforeBoot

\* ------------------------------------------------------------------------
\* Properties of the life of a subprocess
\* ------------------------------------------------------------------------

\* C12: start() on a supervisor whose subprocess has not exited yet, whether
\* or not stop or a kill was sent to it, fails with already-running and
\* spawns nothing; so at most one subprocess of a supervisor is alive at any
\* time, and it is the one the supervisor holds the handle of.
C12_OneSubprocess ==
    /\ [](Cardinality(alive) <= 1 /\ \A id \in alive : process.id = id)
    /\ [][(alive # {} /\ out'.op = "start")
             => (out'.err = "already-running" /\ UNCHANGED <<process, alive, spawns>>)]_vars

\* start() was rejected with already-running after stop() and a kill were
\* sent to the subprocess that is still attached
C12_RejectedAfterStop ==
    /\ out.op = "start" /\ out.err = "already-running"
    /\ process.id # 0
    /\ \E i \in 1..Len(sent) : sent[i].id = process.id /\ sent[i].what = "end"
    /\ \E i \in 1..Len(sent) : sent[i].id = process.id /\ sent[i].what = "SIGTERM"

\* C14: when the exit of the subprocess is handled the stop time and the exit
\* code are recorded, the status becomes stopped if the code is 0 and failed
\* otherwise (another code, or none because a signal ended it), and the handle
\* is released: afterwards stop/hotReload/hotRestart/kill return false and
\* send nothing, and a start() with valid options is accepted.
C14_ExitHandled ==
    [][/\ (out'.op = "handleExit" /\ alive' # alive) =>
             /\ flutterProcess'.stopped
             /\ flutterProcess'.hasExitCode = out'.hasCode
             /\ flutterProcess'.exitCode = out'.code
             /\ flutterProcess'.status = IF out'.hasCode /\ out'.code = 0 THEN "stopped"
                                         ELSE "failed"
             /\ process' = NoProcess
       /\ (flutterProcess.stopped /\ alive = {}
             /\ out'.op \in {"stop", "hotReload", "hotRestart", "kill"}) =>
             (out'.result = FALSE /\ sent' = sent)
       /\ (flutterProcess.stopped /\ alive = {} /\ out'.op = "start"
             /\ validateStart(out'.options) = "ok") =>
             (out'.err = "none" /\ process'.id # 0 /\ alive' = {process'.id})]_vars

\* a subprocess was ended by a signal and a stop() was then refused
C14_StopRefusedAfterSignal ==
    /\ out.op = "stop" /\ out.result = FALSE
    /\ flutterProcess.status = "failed"
    /\ flutterProcess.stopped /\ ~flutterProcess.hasExitCode
    /\ process = NoProcess

Terminal == {"stopped", "failed"}

\* C13: stopped and failed are terminal: once the exit of the subprocess has
\* been handled the status stays what the exit made it under every later
\* event (late output, the hot-reload timer, cleanup) until a start() is
\* accepted; and a hot-reload timer that is pending when the subprocess exits
\* is cancelled, so that it fires neither on the ended run nor on a later one.
C13_TerminalStatusStays ==
    [][/\ (flutterProcess.status \in Terminal /\ ~(out'.op = "start" /\ out'.err = "none"))
             => flutterProcess'.status = flutterProcess.status
       /\ (out'.op = "handleExit" /\ alive' # alive) => timers' = 0]_vars

\* ------------------------------------------------------------------------
\* Properties of the fan-out of output lines
\* ------------------------------------------------------------------------

\* the lines of a chunk of output that are handled: those that are not blank
handledLines(data) == SelectSeq(split(data, "\n"), notBlank)

\* the lines of the last n entries of a log
lastLines(log, n) == [i \in 1..n |-> log[Len(log) - n + i].line]

\* C15: for each output line handled, every callback subscribed at that
\* moment is called exactly once with the line, also when other subscribers
\* throw on it, and no other callback (one never subscribed, or unsubscribed
\* since) is called; no error of a subscriber leaves handleOutput; every line
\* is kept in the log buffer; the lines are delivered in the order they were
\* produced.
C15_FanOutIsolated ==
    [][out'.op = "handleOutput" =>
          LET lines == handledLines(out'.data)
              kept == IF Len(lines) < MaxLines THEN Len(lines) ELSE MaxLines
          IN  /\ out'.err = "none"
              /\ Len(out'.notified) = Len(lines)
              /\ \A i \in 1..Len(lines) :
                    /\ out'.notified[i].line = lines[i]
                    /\ out'.notified[i].called = [cb \in logSubscribers |-> 1]
              /\ history'.appended = history.appended + Len(lines)
              /\ Len(logs') >= kept
              /\ lastLines(logs', kept) = SubSeq(lines, Len(lines) - kept + 1, Len(lines))]_vars

\* a chunk of two lines was handled with two subscribers, one of which threw
\* on each line
C15_OneSubscriberThrew ==
    /\ out.op = "handleOutput"
    /\ Len(out.notified) = 2
    /\ DOMAIN out.notified[2].called = Callbacks
    /\ out.caught = 2

\* ------------------------------------------------------------------------
\* Properties of cleanup() of the supervisor
\* ------------------------------------------------------------------------

\* the entries of the record `sent` added by the step
newlySent == SubSeq(sent', Len(sent) + 1, Len(sent'))

\* C16: cleanup() with a subprocess attached first calls stop() on it, and
\* sends the forced kill only when the timeout fires before the exit of that
\* subprocess was observed, and then to that subprocess; when the subprocess
\* exits first the timeout sends no kill to any process; cleanup() raises no
\* error; with no subprocess attached it sends neither stop nor kill.
C16_GracefulThenKill ==
    [][/\ (cleanupCall.pc = "none" /\ cleanupCall'.pc = "waiting") =>
             (process.id # 0 /\ newlySent = send(<<>>, process, <<"q", "end">>))
       /\ (cleanupCall.pc = "none" /\ out'.op = "cleanup") =>
             (process.id = 0 /\ sent' = sent)
       /\ (cleanupCall.pc = "waiting" /\ cleanupCall'.pc = "none") =>
             /\ out'.op = "cleanup" /\ out'.err = "none"
             /\ \A i \in 1..Len(newlySent) :
                   /\ newlySent[i] = [id |-> cleanupCall.proc, what |-> "SIGKILL"]
                   /\ cleanupCall.proc \in alive]_vars

\* cleanup() that waits returns
cleanupTerminates == (cleanupCall.pc = "waiting") ~> (cleanupCall.pc = "none")

\* when cleanup() returns no subscriber is left and the log buffer is empty
cleanupLeavesNothing ==
    [][out'.op = "cleanup" => (logSubscribers' = {} /\ Len(logs') = 0)]_vars

\* C17: cleanup() always returns in the end, whether the subprocess exits,
\* never exits, or its wait() fails; and when it returns the set of
\* subscribers is empty and the log buffer is empty (getTotalLines() = 0).
C17_CleanupReturnsEmpty == cleanupLeavesNothing /\ cleanupTerminates

\* ------------------------------------------------------------------------
\* Properties of the log buffer
\* ------------------------------------------------------------------------
min(a, b) == IF a < b THEN a ELSE b

max(a, b) == IF a > b THEN a ELSE b

\* C18: after N appends and no clear a buffer of capacity C holds min(N, C)
\* entries, which are those with the indices max(0, N - C) .. N - 1 in
\* increasing order, and getNextIndex() is N; an append adds its line as the
\* newest entry and, at capacity, evicts the oldest one.
C18_KeepsNewest ==
    /\ [](~history.cleared =>
            /\ Len(logs) = min(history.appended, MaxLines)
            /\ \A i \in 1..Len(logs) :
                  logs[i].index = max(0, history.appended - MaxLines) + i - 1
            /\ currentIndex = history.appended)
    /\ [][out'.op = "append" =>
            /\ Len(logs') <= MaxLines
            /\ logs'[Len(logs')].line = out'.data
            /\ SubSeq(logs', 1, Len(logs') - 1) =
                  IF Len(logs) < MaxLines THEN logs ELSE Tail(logs)]_vars

\* more lines than the capacity were appended and the oldest was evicted
C18_OldestEvicted ==
    /\ ~history.cleared
    /\ history.appended > MaxLines
    /\ Len(logs) = MaxLines
    /\ logs[1].index = history.appended - MaxLines

\* C19: over the life of a log buffer, under any sequence of appends, reads
\* and clears, the index counter is never reset or reused: it never
\* decreases, and it is at least the number of entries ever appended, each of
\* which got an index greater than those before it.
C19_IndexNeverReset ==
    /\ [](currentIndex >= history.appended)
    /\ [][currentIndex' >= currentIndex]_vars

\* the positions of the entries of log that a getLogs from fromIndex may return
eligible(log, hasFrom, fromIndex) ==
    { i \in 1..Len(log) : ~hasFrom \/ log[i].index >= fromIndex }

\* C20: getLogs(fromIndex = k, limit = L) with k >= 0 and L > 0 returns the
\* first L (or all, if fewer) of the retained entries with index >= k, oldest
\* first with consecutive indices, and with fromIndex omitted the first L
\* retained entries; with k < 0 or L <= 0 it fails with invalid-argument; in
\* every case the buffer and getNextIndex() are unchanged.
C20_GetLogsPage ==
    [][out'.op = "getLogs" =>
          LET k == out'.fromIndex
              L == out'.limit
              page == out'.logs
              from == eligible(logs, out'.hasFrom, k)
              n == min(L, Cardinality(from))
          IN  /\ UNCHANGED <<logs, currentIndex>>
              /\ IF (out'.hasFrom /\ k < 0) \/ L <= 0
                 THEN out'.err = "invalid-argument"
                 ELSE /\ out'.err = "none"
                      /\ Len(page) = n
                      /\ \E a \in 1..(Len(logs) + 1) :
                            /\ page = SubSeq(logs, a, a + n - 1)
                            /\ \A i \in 1..(a - 1) : i \notin from
                            /\ \A i \in a..(a + n - 1) : i \in from
                      /\ \A j \in 1..(n - 1) : page[j + 1].index = page[j].index + 1
                      /\ out'.nextIndex = currentIndex
                      /\ out'.totalLines = Len(logs)]_vars

\* a page of one entry was cut by the limit from the entries from index 1 on,
\* after the entry with index 0 was evicted
C20_PageCutByLimit ==
    /\ out.op = "getLogs" /\ out.err = "none"
    /\ out.hasFrom /\ out.fromIndex = 1 /\ out.limit = 1
    /\ Len(logs) = MaxLines /\ logs[1].index = 1
    /\ out.logs = <<logs[1]>>

\* ------------------------------------------------------------------------
\* Properties of the commands to the subprocess
\* ------------------------------------------------------------------------
Commands == {"stop", "hotReload", "hotRestart", "kill"}

\* C21: with no subprocess attached (start() never accepted, or the subprocess
\* it spawned has exited) stop, hotReload, hotRestart and kill return false
\* and raise nothing, write nothing to any stdin, send no signal and leave
\* the status record as it is.
C21_NoProcessNoEffect ==
    [][(alive = {} /\ out'.op \in Commands) =>
          /\ out'.err = "none"
          /\ out'.result = FALSE
          /\ sent' = sent
          /\ flutterProcess' = flutterProcess]_vars

\* kill() returned false on a supervisor that never started a subprocess
C21_KillBeforeStart ==
    /\ spawns = 0
    /\ out.op = "kill" /\ out.err = "none" /\ out.result = FALSE
    /\ sent = <<>>

\* ------------------------------------------------------------------------
\* Properties of configure()
\* ------------------------------------------------------------------------

\* C22: configure(prefix) changes only what later createSession calls are
\* checked against: the sessions registered, their paths and simulators stay
\* as they are; a createSession is denied access exactly when its resolved
\* path does not start with the prefix configured last; and endSession of a
\* registered session succeeds whatever the prefix is.
C22_ConfigureFrame ==
    [][/\ ret'.op = "configure" =>
             (sessionState' = sessionState /\ devices' = devices /\ calls' = calls)
       /\ ret'.op = "createSession" =>
             (ret'.err = "access-denied"
                 <=> ~startsWith(resolve(ret'.path), allowedPathPrefix))
       /\ (ret'.op = "endSession" /\ ret'.sid \in sessionIds) =>
             (ret'.err = "none" /\ ret'.sid \notin { sessionState'[i].id :
                                                       i \in 1..Len(sessionState') })]_vars

\* a session was ended after the prefix was changed to one its path is not
\* under
C22_EndedOutsidePrefix ==
    /\ ret.op = "endSession" /\ ret.err = "none"
    /\ ~startsWith(resolve(request), allowedPathPrefix)


\* ------------------------------------------------------------------------
\* The signal handlers of the server (index.ts)
\* ------------------------------------------------------------------------
\* process.exit(0) has not run
serving == shutdown.server # "closed"

\* shutdown() goes on past `await sessionManager.cleanup()` once that call
\* has returned `r`
afterCleanup(sd, r) ==
    IF r.op = "cleanup" /\ r.err = "none" THEN [sd EXCEPT !.closing = @ + 1] ELSE sd

\* SIGTERM or SIGINT is delivered: the handler calls shutdown(), which calls
\* cleanup() of the registry
Signal ==
    /\ serving
    /\ shutdown.signals < MaxSignals
    /\ Cleanup
    /\ shutdown' = afterCleanup([shutdown EXCEPT !.signals = @ + 1, !.cleanups = @ + 1], ret')

\* transport.close() of a shutdown() settles, and server.close() is called
TransportCloses ==
    /\ serving
    /\ shutdown.closing > 0
    /\ shutdown' = [shutdown EXCEPT !.closing = @ - 1, !.transport = "closed",
                                    !.server = "closing"]
    /\ ret' = NoRet
    /\ UNCHANGED <<allowedPathPrefix, sessionState, nextUuid, nextUdid, devices, calls,
                   request>>

\* the callback of server.close() runs: process.exit(0)
ServerCloses ==
    /\ shutdown.server = "closing"
    /\ shutdown' = [shutdown EXCEPT !.server = "closed"]
    /\ ret' = NoRet
    /\ UNCHANGED <<allowedPathPrefix, sessionState, nextUuid, nextUdid, devices, calls,
                   request>>

\* ------------------------------------------------------------------------
\* ShutdownSpec: the server with its sessions, and the signals that end it
\* ------------------------------------------------------------------------
ShutdownNext ==
    \/ /\ serving
       /\ \E p \in ProjectPaths : CreateSession(p)
       /\ UNCHANGED <<supVars, restVars>>
    \/ /\ serving
       /\ \E call \in inFlight, ok \in BOOLEAN : CreateSimulatorSettles(call, ok)
       /\ UNCHANGED <<supVars, restVars>>
    \/ /\ serving
       /\ \E call \in inFlight, ok \in BOOLEAN : BootSimulatorSettles(call, ok)
       /\ UNCHANGED <<supVars, restVars>>
    \/ Signal /\ UNCHANGED <<supVars, reader, testRuns>>
    \/ /\ serving
       /\ \E call \in inFlight, ok \in BOOLEAN : ShutdownSimulatorSettles(call, ok)
       /\ shutdown' = afterCleanup(shutdown, ret')
       /\ UNCHANGED <<supVars, reader, testRuns>>
    \/ /\ serving
       /\ \E call \in inFlight, ok \in BOOLEAN : DeleteSimulatorSettles(call, ok)
       /\ shutdown' = afterCleanup(shutdown, ret')
       /\ UNCHANGED <<supVars, reader, testRuns>>
    \/ TransportCloses /\ UNCHANGED <<supVars, reader, testRuns>>
    \/ ServerCloses /\ UNCHANGED <<supVars, reader, testRuns>>

ShutdownSpec == Init /\ [][ShutdownNext]_vars

\* ------------------------------------------------------------------------
\* Properties of the signal handlers
\* ------------------------------------------------------------------------
cleanupInProgress == \E c \in inFlight : c.op = "cleanup"

\* C23: for any sequence of termination signals, cleanup() of the registry is
\* called at most once (exactly once by the time the transport is closed),
\* and the transport is closed and the server stopped only when no cleanup()
\* is still in progress
C23_CleanupOnceBeforeClose ==
    /\ shutdown.cleanups <= 1
    /\ shutdown.transport = "closed" => (shutdown.cleanups = 1 /\ ~cleanupInProgress)
    /\ shutdown.server # "listening" => shutdown.transport = "closed"


\* ------------------------------------------------------------------------
\* The test tools (handleFlutterTest, handleFlutterTestResults,
\* handleFlutterTestLogs) and the FlutterTestManager of a session
\* ------------------------------------------------------------------------
\* FlutterTestManager.start: a run under a reference that no run of the
\* process had before
testStart(tm, reference) == [tm EXCEPT !.references = @ \cup {reference}]

\* FlutterTestManager.getAllReferences
getAllReferences(tm) == tm.references

\* FlutterTestManager.getProgress and getLogs know the reference
knowsReference(tm, reference) == reference \in tm.references

\* the loop of the two lookup handlers over getAllSessionIds(): the index of
\* the first session whose test manager lists the reference, 0 if none does
findTestManager_anyManager(reg, reference) ==
    LET hits == { i \in 1..Len(reg) : reg[i].testManager.made }
    IN  IF hits = {} THEN 0 ELSE CHOOSE i \in hits : \A j \in hits : i <= j

findTestManager(reg, reference) ==
    LET hits == { i \in 1..Len(reg) :
                    /\ reg[i].testManager.made
                    /\ reference \in getAllReferences(reg[i].testManager) }
    IN  IF hits = {} THEN 0 ELSE CHOOSE i \in hits : \A j \in hits : i <= j

lookupOutcome(reg, reference) ==
    LET i == findTestManager(reg, reference)
    IN  IF i = 0 THEN "reference-not-found"
        ELSE IF ~knowsReference(reg[i].testManager, reference) THEN "reference-not-found"
        ELSE "none"

HandleFlutterTest(sessionId) ==
    /\ IF ~hasSession(sessionId)
       THEN /\ ret' = [NoRet EXCEPT !.op = "flutterTest", !.err = "session-not-found",
                                    !.sid = sessionId]
            /\ UNCHANGED <<sessionState, testRuns>>
       ELSE /\ testRuns.nextReference <= MaxTests
            /\ sessionState' =
                  [i \in 1..Len(sessionState) |->
                      IF sessionState[i].id = sessionId
                      THEN [sessionState[i] EXCEPT !.testManager =
                               testStart([@ EXCEPT !.made = TRUE], testRuns.nextReference)]
                      ELSE sessionState[i]]
            /\ testRuns' = [nextReference |-> testRuns.nextReference + 1,
                            startedBy |-> Append(testRuns.startedBy, sessionId)]
            /\ ret' = [NoRet EXCEPT !.op = "flutterTest", !.sid = sessionId,
                                    !.reference = testRuns.nextReference]
    /\ UNCHANGED <<allowedPathPrefix, nextUuid, nextUdid, devices, calls, request>>

lookup(op, reference) ==
    /\ ret' = [NoRet EXCEPT !.op = op, !.err = lookupOutcome(sessionState, reference),
                            !.reference = reference]
    /\ UNCHANGED <<allowedPathPrefix, sessionState, nextUuid, nextUdid, devices, calls,
                   request, testRuns>>

HandleFlutterTestResults(reference) == lookup("flutterTestResults", reference)

HandleFlutterTestLogs(reference) == lookup("flutterTestLogs", reference)

\* ------------------------------------------------------------------------
\* TestSpec: sessions that come and go, test runs started under them and
\* looked up by reference
\* ------------------------------------------------------------------------
References == 0..(MaxTests + 1)

TestNext ==
    \/ \E p \in ProjectPaths : CreateSession(p) /\ UNCHANGED <<supVars, restVars>>
    \/ \E call \in inFlight, ok \in BOOLEAN :
          CreateSimulatorSettles(call, ok) /\ UNCHANGED <<supVars, restVars>>
    \/ \E call \in inFlight, ok \in BOOLEAN :
          BootSimulatorSettles(call, ok) /\ UNCHANGED <<supVars, restVars>>
    \/ \E id \in 1..MaxCreates : EndSession(id) /\ UNCHANGED <<supVars, restVars>>
    \/ \E call \in inFlight, ok \in BOOLEAN :
          ShutdownSimulatorSettles(call, ok) /\ UNCHANGED <<supVars, restVars>>
    \/ \E call \in inFlight, ok \in BOOLEAN :
          DeleteSimulatorSettles(call, ok) /\ UNCHANGED <<supVars, restVars>>
    \/ \E id \in 1..MaxCreates :
          HandleFlutterTest(id) /\ UNCHANGED <<supVars, shutdown, reader>>
    \/ \E reference \in References :
          HandleFlutterTestResults(reference) /\ UNCHANGED <<supVars, shutdown, reader>>
    \/ \E reference \in References :
          HandleFlutterTestLogs(reference) /\ UNCHANGED <<supVars, shutdown, reader>>

TestSpec == Init /\ [][TestNext]_vars

\* ------------------------------------------------------------------------
\* Properties of the lookup by reference
\* ------------------------------------------------------------------------
Lookups == {"flutterTestResults", "flutterTestLogs"}

\* the session that started the run under the reference, 0 if no run has it
owner(reference) ==
    IF reference \in 1..Len(testRuns.startedBy) THEN testRuns.startedBy[reference] ELSE 0

\* C24: a lookup of test progress or test logs by reference succeeds exactly
\* when the session under which the run was started is registered, whoever
\* asks, and fails with not-found otherwise: for a reference no run has, and
\* for every reference of a session that endSession has removed
C24_LookupByReference ==
    [][ret'.op \in Lookups =>
          /\ ret'.err \in {"none", "reference-not-found"}
          /\ ret'.err = "none" <=> owner(ret'.reference) \in sessionIds]_vars

\* a run was started under a session, the session was ended, and a lookup of
\* the reference was answered not-found
C24_NotFoundAfterEnd ==
    /\ ret.op \in Lookups
    /\ ret.err = "reference-not-found"
    /\ owner(ret.reference) # 0
    /\ owner(ret.reference) \notin sessionIds
    /\ sessionState # <<>>


\* ------------------------------------------------------------------------
\* Properties of the status transitions
\* ------------------------------------------------------------------------

\* C25: every change of the status follows the diagram: an accepted start()
\* leaves starting, or running with the pid it observed (so running implies
\* a pid other than 0); otherwise the status becomes running only from
\* hot-reloading, when the delay has elapsed, and hot-reloading only from
\* running, on a marker line; a marker line seen while the status is
\* starting, stopped or failed does not change it.
C25_StatusDiagram ==
    /\ [](flutterProcess.status = "running" => flutterProcess.pid # 0)
    /\ [][IF out'.op = "start" /\ out'.err = "none"
          THEN flutterProcess'.status \in {"starting", "running"}
          ELSE /\ (flutterProcess'.status = "running" /\ flutterProcess.status # "running")
                     => flutterProcess.status = "hot-reloading"
               /\ (flutterProcess'.status = "hot-reloading"
                      /\ flutterProcess.status # "hot-reloading")
                     => flutterProcess.status = "running"
               /\ (out'.op = "handleOutput"
                      /\ flutterProcess.status \in {"starting", "stopped", "failed"})
                     => flutterProcess'.status = flutterProcess.status]_vars


\* ------------------------------------------------------------------------
\* Properties of the standard input of the subprocess
\* ------------------------------------------------------------------------
Writes == {"q", "r", "R", "end"}

\* C26: nothing is written to the standard input of a subprocess after it
\* was closed: once stop() has written the quit command and closed the
\* stream, no later stop(), hotReload(), hotRestart() or cleanup() writes to
\* that subprocess or closes its stream again.
C26_NoWriteAfterClose ==
    \A i, j \in 1..Len(sent) :
        (i < j /\ sent[i].id = sent[j].id /\ sent[i].what = "end")
            => sent[j].what \notin Writes


\* ------------------------------------------------------------------------
\* ReaderSpec: a client that pages through the log of one supervisor: each
\* getLogs it calls starts at the nextIndex the call before returned, the
\* first at 0, while lines are appended
\* ------------------------------------------------------------------------
indexesOf(entries) == [i \in 1..Len(entries) |-> entries[i].index]

Poll(limit) ==
    /\ GetLogs(TRUE, reader.fromIndex, limit)
    /\ reader' = [fromIndex |-> out'.nextIndex,
                  received |-> reader.received \o indexesOf(out'.logs)]

PageLimits == 1..(MaxLines + 1)

ReaderNext ==
    \/ \E line \in LinePool : LogAppend(line) /\ UNCHANGED <<regVars, restVars>>
    \/ \E limit \in PageLimits : Poll(limit) /\ UNCHANGED <<regVars, shutdown, testRuns>>

ReaderSpec == SupSpecInit /\ [][ReaderNext]_vars

\* ------------------------------------------------------------------------
\* Properties of paging through the log
\* ------------------------------------------------------------------------

\* C27: a reader that pages with getLogs(fromIndex = the nextIndex of its
\* call before, limit) from 0 gets every retained line once and in the order
\* of the indexes: no line is received twice or out of order, and no line
\* that is retained lies below the index the reader goes on from without
\* having been received, whatever positive limit it uses and however the
\* appends interleave with its calls.
C27_PagingSkipsNothing ==
    /\ \A i, j \in 1..Len(reader.received) :
          i < j => reader.received[i] < reader.received[j]
    /\ \A k \in 1..Len(logs) :
          logs[k].index < reader.fromIndex
              => \E i \in 1..Len(reader.received) : reader.received[i] = logs[k].index


\* ------------------------------------------------------------------------
\* OrphanSpec: the registry under concurrent callers where shutdownSimulator
\* and deleteSimulator never fail
\* ------------------------------------------------------------------------
OrphanNext ==
    \/ \E p \in ProjectPaths : CreateSession(p) /\ UNCHANGED <<supVars, restVars>>
    \/ \E call \in inFlight, ok \in BOOLEAN :
          CreateSimulatorSettles(call, ok) /\ UNCHANGED <<supVars, restVars>>
    \/ \E call \in inFlight, ok \in BOOLEAN :
          BootSimulatorSettles(call, ok) /\ UNCHANGED <<supVars, restVars>>
    \/ \E id \in 1..MaxCreates : EndSession(id) /\ UNCHANGED <<supVars, restVars>>
    \/ \E call \in inFlight :
          ShutdownSimulatorSettles(call, TRUE) /\ UNCHANGED <<supVars, restVars>>
    \/ \E call \in inFlight :
          DeleteSimulatorSettles(call, TRUE) /\ UNCHANGED <<supVars, restVars>>
    \/ Cleanup /\ UNCHANGED <<supVars, restVars>>

OrphanSpec == Init /\ [][OrphanNext]_vars

\* ------------------------------------------------------------------------
\* Properties of the devices
\* ------------------------------------------------------------------------
sessionsOf(udid) == { i \in 1..Len(sessionState) : sessionState[i].simulatorUdid = udid }

\* C28: no device is orphaned: where shutdownSimulator and deleteSimulator
\* never fail, in every state with no createSession, endSession or cleanup
\* in flight each device that was created and not deleted is the device of
\* exactly one registered session, also after a createSession in which
\* createSimulator succeeded and bootSimulator failed.
C28_NoOrphanDevice ==
    calls = EmptyBag => \A udid \in devices : Cardinality(sessionsOf(udid)) = 1

====
